---- MODULE Spec2Model ----
(***************************************************************************)
(* Model of utils/payload.py: BinaryPayloadDecoder, a cursor-based reader  *)
(* over a byte buffer (Python 2 str), built on struct.unpack.              *)
(*                                                                         *)
(* Bytes are naturals 0..255 and a buffer is a sequence of bytes.          *)
(* Python integers are unbounded while TLC's are 32 bits wide, so a        *)
(* decoded integer is the record [neg, mag]: its sign and its magnitude as *)
(* base-256 digits, most significant first, without leading zeros.         *)
(* A decoded float is its IEEE-754 fields [sign, exp, frac].               *)
(***************************************************************************)
EXTENDS Integers, Sequences, FiniteSets, TLC

\* ---------------------------------------------------------------- bounds
MaxLen == 9      \* longest buffer handed to the constructor
MaxRegs == 2     \* longest register list handed to fromRegisters
MaxCoils == 2    \* longest coil list handed to fromCoils
MaxStr == 2      \* largest size handed to decode_string
MaxCalls == 3    \* decode calls between two resets
MaxLog == 2      \* length of the first run that is recorded for replay
MaxPairCalls == 3  \* calls made, in all, on a pair of decoders

\* ------------------------------------------------------------- constants
Little == "<"
Big == ">"
Endian == {Little, Big}

BINARY_DECODERS ==
  [ t \in {"8bit_uint", "16bit_uint", "32bit_uint", "32bit_ulong",
           "64bit_uint", "8bit_int", "16bit_int", "32bit_int",
           "32bit_long", "64bit_int", "32bit_float", "64bit_float"} |->
      CASE t = "8bit_uint"   -> 1
        [] t = "16bit_uint"  -> 2
        [] t = "32bit_uint"  -> 4
        [] t = "32bit_ulong" -> 4
        [] t = "64bit_uint"  -> 8
        [] t = "8bit_int"    -> 1
        [] t = "16bit_int"   -> 2
        [] t = "32bit_int"   -> 4
        [] t = "32bit_long"  -> 4
        [] t = "64bit_int"   -> 8
        [] t = "32bit_float" -> 4
        [] t = "64bit_float" -> 8 ]

\* --------------------------------------------------- sequences of bytes
RECURSIVE Reverse(_)
Reverse(s) == IF s = <<>> THEN <<>> ELSE Append(Reverse(Tail(s)), Head(s))

RECURSIVE Strip(_)
\* the digits without leading zeros
Strip(s) == IF s = <<>> \/ Head(s) # 0 THEN s ELSE Strip(Tail(s))

\* one index of a Python slice s[a:b], clamped as the interpreter clamps it
SliceIndex(i, n) ==
  IF i < 0 THEN (IF i + n < 0 THEN 0 ELSE i + n)
           ELSE (IF i > n THEN n ELSE i)

\* s[a:b] of Python: the bytes, and the 0-based range [lo, hi) they come from
Slice(s, a, b) ==
  LET lo == SliceIndex(a, Len(s))
      hi == SliceIndex(b, Len(s))
  IN IF lo < hi THEN [lo |-> lo, hi |-> hi, bytes |-> SubSeq(s, lo + 1, hi)]
                ELSE [lo |-> lo, hi |-> lo, bytes |-> <<>>]

\* ------------------------------------------------------ struct.pack/unpack
\* struct.calcsize of endian + c: '<' and '>' select the standard sizes
calcsize(fstring) ==
  LET c == fstring[2]
  IN CASE c \in {"B", "b"} -> 1
       [] c \in {"H", "h"} -> 2
       [] c \in {"I", "i", "L", "l", "f"} -> 4
       [] c \in {"Q", "q", "d"} -> 8

\* most significant byte first
BigEndianBytes(fstring, bytes) ==
  IF fstring[1] = Big THEN bytes ELSE Reverse(bytes)

RECURSIVE Negate(_)
\* two's complement of the digits, least significant digit first
Negate(rev) ==
  IF rev = <<>> THEN <<>>
  ELSE IF Head(rev) = 0 THEN <<0>> \o Negate(Tail(rev))
  ELSE <<256 - Head(rev)>> \o [i \in 1..(Len(rev) - 1) |-> 255 - rev[i + 1]]

Unsigned(be) == [neg |-> FALSE, mag |-> Strip(be)]

Signed(be) ==
  IF be[1] >= 128 THEN [neg |-> TRUE, mag |-> Strip(Reverse(Negate(Reverse(be))))]
                  ELSE [neg |-> FALSE, mag |-> Strip(be)]

Float32(be) ==
  [sign |-> be[1] \div 128,
   exp  |-> (be[1] % 128) * 2 + be[2] \div 128,
   frac |-> <<be[2] % 128, be[3], be[4]>>]

Float64(be) ==
  [sign |-> be[1] \div 128,
   exp  |-> (be[1] % 128) * 16 + be[2] \div 16,
   frac |-> <<be[2] % 16>> \o SubSeq(be, 3, 8)]

NoValue == [none |-> TRUE]

\* struct.unpack(fstring, handle)[0]; struct.error unless len(handle) is calcsize
unpack(fstring, handle) ==
  IF Len(handle) # calcsize(fstring)
  THEN [outcome |-> "struct.error", value |-> NoValue]
  ELSE LET be == BigEndianBytes(fstring, handle)
           c == fstring[2]
       IN [outcome |-> "ok",
           value |-> CASE c \in {"B", "H", "I", "L", "Q"} -> Unsigned(be)
                       [] c \in {"b", "h", "i", "l", "q"} -> Signed(be)
                       [] c = "f" -> Float32(be)
                       [] c = "d" -> Float64(be)]

\* struct.pack(endian + 'H', x): struct.error unless 0 <= x <= 65535
packH(endian, x) ==
  IF endian = Big THEN <<x \div 256, x % 256>> ELSE <<x % 256, x \div 256>>

\* ---------------------------------------------- pymodbus.utilities helpers
RECURSIVE BitsOfByte(_, _)
\* the n low bits of value, least significant first
BitsOfByte(value, n) ==
  IF n = 0 THEN <<>> ELSE <<(value % 2) = 1>> \o BitsOfByte(value \div 2, n - 1)

RECURSIVE unpack_bitstring(_)
unpack_bitstring(string) ==
  IF string = <<>> THEN <<>>
  ELSE BitsOfByte(Head(string), 8) \o unpack_bitstring(Tail(string))

RECURSIVE PackByte(_)
\* up to 8 bits, least significant first, as one byte
PackByte(bits) ==
  IF bits = <<>> THEN 0
  ELSE (IF Head(bits) THEN 1 ELSE 0) + 2 * PackByte(Tail(bits))

RECURSIVE pack_bitstring(_)
pack_bitstring(bits) ==
  IF bits = <<>> THEN <<>>
  ELSE IF Len(bits) <= 8 THEN <<PackByte(bits)>>
  ELSE <<PackByte(SubSeq(bits, 1, 8))>> \o pack_bitstring(SubSeq(bits, 9, Len(bits)))

\* ------------------------------------------------ BinaryPayloadDecoder
\* A method is an operator from the instance (self: _payload, _pointer,
\* _endian) to the instance it leaves, the slice it read (handle), and what
\* the call produced: a value, or the exception that left the method.
Return(self, handle, outcome, value) ==
  [self |-> self, handle |-> handle, outcome |-> outcome, value |-> value]

\* __init__ that drops its endian argument and keeps the default
New_defaultEndian(payload, endian) ==
  [payload |-> payload, pointer |-> 0, endian |-> Little]

\* __init__(payload, endian)
New(payload, endian) == [payload |-> payload, pointer |-> 0, endian |-> endian]

RECURSIVE JoinRegisters(_, _)
\* ''.join(pack(endian + 'H', x) for x in registers)
JoinRegisters(registers, endian) ==
  IF registers = <<>> THEN <<>>
  ELSE packH(endian, Head(registers)) \o JoinRegisters(Tail(registers), endian)

\* fromRegisters packing with a fixed '<H' while the decoder keeps endian
fromRegisters_fixedOrder(registers, endian) ==
  IF registers.islist
  THEN [outcome |-> "ok", self |-> New(JoinRegisters(registers.items, Little), endian)]
  ELSE [outcome |-> "ParameterException"]

\* An argument of a factory: a list (islist, with its items) or a scalar.
\* The result is the instance built, or the ParameterException raised.
fromRegisters(registers, endian) ==
  IF registers.islist
  THEN [outcome |-> "ok", self |-> New(JoinRegisters(registers.items, endian), endian)]
  ELSE [outcome |-> "ParameterException"]

\* fromCoils without the isinstance test
fromCoils_unchecked(coils, endian) ==
  [outcome |-> "ok", self |-> New(pack_bitstring(coils.items), endian)]

fromCoils(coils, endian) ==
  IF coils.islist
  THEN [outcome |-> "ok", self |-> New(pack_bitstring(coils.items), endian)]
  ELSE [outcome |-> "ParameterException"]

\* reset that leaves the pointer where it is
reset_noop(self) ==
  Return(self, Slice(self.payload, 0, 0), "ok", NoValue)

reset(self) ==
  Return([self EXCEPT !.pointer = 0], Slice(self.payload, 0, 0), "ok", NoValue)

decode_8bit_uint(self) ==
  LET s == [self EXCEPT !.pointer = @ + 1]
      fstring == <<s.endian, "B">>
      handle == Slice(s.payload, s.pointer - 1, s.pointer)
      u == unpack(fstring, handle.bytes)
  IN Return(s, handle, u.outcome, u.value)

\* decode_bits returning the bits most significant first
decode_bits_reversed(self) ==
  LET s == [self EXCEPT !.pointer = @ + 1]
      handle == Slice(s.payload, s.pointer - 1, s.pointer)
  IN Return(s, handle, "ok", Reverse(unpack_bitstring(handle.bytes)))

decode_bits(self) ==
  LET s == [self EXCEPT !.pointer = @ + 1]
      handle == Slice(s.payload, s.pointer - 1, s.pointer)
  IN Return(s, handle, "ok", unpack_bitstring(handle.bytes))

\* decode_16bit_uint advancing by one byte only, so that reads overlap
decode_16bit_uint_overlap(self) ==
  LET s == [self EXCEPT !.pointer = @ + 1]
      fstring == <<s.endian, "H">>
      handle == Slice(s.payload, s.pointer - 1, s.pointer + 1)
      u == unpack(fstring, handle.bytes)
  IN Return(s, handle, u.outcome, u.value)

decode_16bit_uint(self) ==
  LET s == [self EXCEPT !.pointer = @ + 2]
      fstring == <<s.endian, "H">>
      handle == Slice(s.payload, s.pointer - 2, s.pointer)
      u == unpack(fstring, handle.bytes)
  IN Return(s, handle, u.outcome, u.value)

decode_32bit_uint(self) ==
  LET s == [self EXCEPT !.pointer = @ + 4]
      fstring == <<s.endian, "I">>
      handle == Slice(s.payload, s.pointer - 4, s.pointer)
      u == unpack(fstring, handle.bytes)
  IN Return(s, handle, u.outcome, u.value)

\* decode_32bit_ulong with the signed format character 'l'
decode_32bit_ulong_signed(self) ==
  LET s == [self EXCEPT !.pointer = @ + 4]
      fstring == <<s.endian, "l">>
      handle == Slice(s.payload, s.pointer - 4, s.pointer)
      u == unpack(fstring, handle.bytes)
  IN Return(s, handle, u.outcome, u.value)

decode_32bit_ulong(self) ==
  LET s == [self EXCEPT !.pointer = @ + 4]
      fstring == <<s.endian, "L">>
      handle == Slice(s.payload, s.pointer - 4, s.pointer)
      u == unpack(fstring, handle.bytes)
  IN Return(s, handle, u.outcome, u.value)

decode_64bit_uint(self) ==
  LET s == [self EXCEPT !.pointer = @ + 8]
      fstring == <<s.endian, "Q">>
      handle == Slice(s.payload, s.pointer - 8, s.pointer)
      u == unpack(fstring, handle.bytes)
  IN Return(s, handle, u.outcome, u.value)

decode_8bit_int(self) ==
  LET s == [self EXCEPT !.pointer = @ + 1]
      fstring == <<s.endian, "b">>
      handle == Slice(s.payload, s.pointer - 1, s.pointer)
      u == unpack(fstring, handle.bytes)
  IN Return(s, handle, u.outcome, u.value)

\* decode_16bit_int with the unsigned format character 'H'
decode_16bit_int_unsigned(self) ==
  LET s == [self EXCEPT !.pointer = @ + 2]
      fstring == <<s.endian, "H">>
      handle == Slice(s.payload, s.pointer - 2, s.pointer)
      u == unpack(fstring, handle.bytes)
  IN Return(s, handle, u.outcome, u.value)

decode_16bit_int(self) ==
  LET s == [self EXCEPT !.pointer = @ + 2]
      fstring == <<s.endian, "h">>
      handle == Slice(s.payload, s.pointer - 2, s.pointer)
      u == unpack(fstring, handle.bytes)
  IN Return(s, handle, u.outcome, u.value)

decode_32bit_int(self) ==
  LET s == [self EXCEPT !.pointer = @ + 4]
      fstring == <<s.endian, "i">>
      handle == Slice(s.payload, s.pointer - 4, s.pointer)
      u == unpack(fstring, handle.bytes)
  IN Return(s, handle, u.outcome, u.value)

decode_32bit_long(self) ==
  LET s == [self EXCEPT !.pointer = @ + 4]
      fstring == <<s.endian, "l">>
      handle == Slice(s.payload, s.pointer - 4, s.pointer)
      u == unpack(fstring, handle.bytes)
  IN Return(s, handle, u.outcome, u.value)

decode_64bit_int(self) ==
  LET s == [self EXCEPT !.pointer = @ + 8]
      fstring == <<s.endian, "q">>
      handle == Slice(s.payload, s.pointer - 8, s.pointer)
      u == unpack(fstring, handle.bytes)
  IN Return(s, handle, u.outcome, u.value)

\* decode_32bit_float that advances only once the bytes are known to be there
decode_32bit_float_checked(self) ==
  LET fstring == <<self.endian, "f">>
      handle == Slice(self.payload, self.pointer, self.pointer + 4)
      u == unpack(fstring, handle.bytes)
      s == IF u.outcome = "ok" THEN [self EXCEPT !.pointer = @ + 4] ELSE self
  IN Return(s, handle, u.outcome, u.value)

decode_32bit_float(self) ==
  LET s == [self EXCEPT !.pointer = @ + 4]
      fstring == <<s.endian, "f">>
      handle == Slice(s.payload, s.pointer - 4, s.pointer)
      u == unpack(fstring, handle.bytes)
  IN Return(s, handle, u.outcome, u.value)

decode_64bit_float(self) ==
  LET s == [self EXCEPT !.pointer = @ + 8]
      fstring == <<s.endian, "d">>
      handle == Slice(s.payload, s.pointer - 8, s.pointer)
      u == unpack(fstring, handle.bytes)
  IN Return(s, handle, u.outcome, u.value)

\* decode_string that drops the bytes it returned from the buffer
decode_string_consume(self, size) ==
  LET handle == Slice(self.payload, self.pointer, self.pointer + size)
      s == [self EXCEPT !.payload = SubSeq(@, handle.hi + 1, Len(@))]
  IN Return(s, handle, "ok", handle.bytes)

decode_string(self, size) ==
  LET s == [self EXCEPT !.pointer = @ + size]
      handle == Slice(s.payload, s.pointer - size, s.pointer)
  IN Return(s, handle, "ok", handle.bytes)

\* --------------------------------------------------------------- inputs
\* buffers handed to the constructor: the prefixes of four byte patterns
SeedByte(k, i) ==
  CASE k = 1 -> i
    [] k = 2 -> (i * 67) % 256
    [] k = 3 -> 255
    [] k = 4 -> IF i = 1 THEN 128 ELSE 0

Payloads == { [i \in 1..n |-> SeedByte(k, i)] : k \in 1..4, n \in 0..MaxLen }

RegisterValues == {0, 258, 772, 65535}    \* 0x0000, 0x0102, 0x0304, 0xFFFF

RECURSIVE SeqsUpTo(_, _)
\* the sequences over S of length at most n
SeqsUpTo(S, n) ==
  IF n = 0 THEN {<<>>}
  ELSE LET shorter == SeqsUpTo(S, n - 1)
       IN shorter \cup { Append(q, x) : q \in shorter, x \in S }

List(items) == [islist |-> TRUE, items |-> items, scalar |-> 0]
Scalar(x) == [islist |-> FALSE, items |-> <<>>, scalar |-> x]

RegisterArgs == { List(q) : q \in SeqsUpTo(RegisterValues, MaxRegs) } \cup {Scalar(42)}
CoilArgs == { List(q) : q \in SeqsUpTo(BOOLEAN, MaxCoils) } \cup {Scalar(42)}
StringSizes == ((0 - 1)..MaxStr) \cup {5}

\* ---------------------------------------------------------------- state
VARIABLES
  instance,  \* TRUE when the construction returned a decoder
  payload,   \* self._payload
  pointer,   \* self._pointer
  endian,    \* self._endian
  origin,    \* history: the construction call, its arguments and its outcome
  last,      \* history: the last call, the cursor before it, what it produced
  run,       \* history: the in-bounds decode calls made in a row, and their widths
  ncalls,    \* history: decode calls since the last reset
  phase,     \* history: "first" run, "replay" of it after a reset, or "free"
  first,     \* history: the calls of the first run and what they produced
  idx,       \* history: how many calls of the first run the replay has repeated
  hist,      \* history: what happened between the last reset and the last call
  pair       \* two more decoders, used side by side, and the history of their calls

vars == <<instance, payload, pointer, endian, origin, last, run, ncalls, phase, first, idx,
          hist, pair>>

Self == [payload |-> payload, pointer |-> pointer, endian |-> endian]

DecodeOps ==
  {"decode_8bit_uint", "decode_bits", "decode_16bit_uint", "decode_32bit_uint",
   "decode_32bit_ulong", "decode_64bit_uint", "decode_8bit_int",
   "decode_16bit_int", "decode_32bit_int", "decode_32bit_long",
   "decode_64bit_int", "decode_32bit_float", "decode_64bit_float",
   "decode_string"}

\* the width column of the operation table: the bytes a call asks for
RequiredWidth(op, size) ==
  CASE op = "decode_8bit_uint"   -> BINARY_DECODERS["8bit_uint"]
    [] op = "decode_16bit_uint"  -> BINARY_DECODERS["16bit_uint"]
    [] op = "decode_32bit_uint"  -> BINARY_DECODERS["32bit_uint"]
    [] op = "decode_32bit_ulong" -> BINARY_DECODERS["32bit_ulong"]
    [] op = "decode_64bit_uint"  -> BINARY_DECODERS["64bit_uint"]
    [] op = "decode_8bit_int"    -> BINARY_DECODERS["8bit_int"]
    [] op = "decode_16bit_int"   -> BINARY_DECODERS["16bit_int"]
    [] op = "decode_32bit_int"   -> BINARY_DECODERS["32bit_int"]
    [] op = "decode_32bit_long"  -> BINARY_DECODERS["32bit_long"]
    [] op = "decode_64bit_int"   -> BINARY_DECODERS["64bit_int"]
    [] op = "decode_32bit_float" -> BINARY_DECODERS["32bit_float"]
    [] op = "decode_64bit_float" -> BINARY_DECODERS["64bit_float"]
    [] op = "decode_bits"        -> 1
    [] op = "decode_string"      -> size
    [] OTHER                     -> 0

\* the call asks for bytes the buffer has: 0 <= cursor, cursor + width <= length
InBounds(before, width, length) ==
  width >= 0 /\ before >= 0 /\ before + width <= length

NoCall ==
  [op |-> "none", size |-> 0, before |-> 0, outcome |-> "ok", value |-> NoValue,
   lo |-> 0, hi |-> 0, resets |-> 0]

NoRun(start) == [start |-> start, sum |-> 0, n |-> 0]

\* the decode operations of a fixed width: all but decode_string
FixedOps == DecodeOps \ {"decode_string"}

\* hist, before the last call and since the last reset: the widths of the
\* decodes that succeeded, whether a fixed-width decode failed, and whether
\* decode_string was handed a negative size
NoHist == [consumed |-> 0, failed |-> FALSE, negative |-> FALSE]

\* the same, the last call included
HistNow ==
  IF last.op \notin DecodeOps THEN hist
  ELSE [consumed |-> hist.consumed
                       + (IF last.outcome = "ok" THEN RequiredWidth(last.op, last.size) ELSE 0),
        failed   |-> hist.failed \/ (last.op \in FixedOps /\ last.outcome # "ok"),
        negative |-> hist.negative \/ (last.op = "decode_string" /\ last.size < 0)]

Built(self, ctor, arg, e) ==
  /\ instance = TRUE
  /\ payload = self.payload
  /\ pointer = self.pointer
  /\ endian = self.endian
  /\ origin = [ctor |-> ctor, arg |-> arg, endian |-> e, outcome |-> "ok",
               payload |-> self.payload]

NotBuilt(ctor, arg, e, exception) ==
  /\ instance = FALSE
  /\ payload = <<>>
  /\ pointer = 0
  /\ endian = e
  /\ origin = [ctor |-> ctor, arg |-> arg, endian |-> e, outcome |-> exception,
               payload |-> <<>>]

Constructed(r, ctor, arg, e) ==
  IF r.outcome = "ok" THEN Built(r.self, ctor, arg, e)
                      ELSE NotBuilt(ctor, arg, e, r.outcome)

\* no second and third decoder
NoPair == [objs |-> <<>>, solo |-> <<>>, calls |-> 0, last |-> NoCall]

Start(payloads, registerArgs, coilArgs, ph) ==
  /\ \E e \in Endian :
       \/ \E p \in payloads : Built(New(p, e), "new", List(p), e)
       \/ \E a \in registerArgs : Constructed(fromRegisters(a, e), "fromRegisters", a, e)
       \/ \E a \in coilArgs : Constructed(fromCoils(a, e), "fromCoils", a, e)
  /\ last = NoCall
  /\ run = NoRun(0)
  /\ ncalls = 0
  /\ phase = ph
  /\ first = <<>>
  /\ idx = 0
  /\ hist = NoHist
  /\ pair = NoPair

\* every construction; the first run is not recorded
Init == Start(Payloads, RegisterArgs, CoilArgs, "free")

\* a few constructions; the first run is recorded and compared with its replay
ReplayPayloads == { [i \in 1..n |-> SeedByte(2, i)] : n \in {1, 3, MaxLen} }
InitReplay == Start(ReplayPayloads, {List(<<258, 772>>)}, {List(<<TRUE, FALSE>>)}, "first")

\* coil lists of one and two bytes' worth, and lists that end inside a byte
CoilsOf(T) == [j \in 1..8 |-> j \in T]
Coils8 == { CoilsOf(T) : T \in { S \in SUBSET (1..8) : Cardinality(S) \in {0, 1, 2, 8} } }
CoilPatterns == {CoilsOf({1, 3}), CoilsOf(1..8), CoilsOf({8})}
Coils16 == { a \o b : a \in CoilPatterns, b \in CoilPatterns }
CoilLists == Coils8 \cup Coils16 \cup { SubSeq(c, 1, n) : c \in Coils16, n \in {3, 11} }

InitCoils == Start({}, {}, { List(c) : c \in CoilLists }, "free")

\* the program's part of a call: the instance the method leaves
Effect(r) ==
  /\ payload' = r.self.payload
  /\ pointer' = r.self.pointer
  /\ endian' = r.self.endian
  /\ UNCHANGED <<instance, origin, pair>>

Entry(op, size, r) ==
  [op |-> op, size |-> size, outcome |-> r.outcome, value |-> r.value]

\* a decode call: the method's effect, and the history of it
Call(op, size, r) ==
  /\ instance
  /\ ncalls < MaxCalls
  /\ Effect(r)
  /\ ncalls' = ncalls + 1
  /\ hist' = HistNow
  /\ last' = [op |-> op, size |-> size, before |-> pointer, outcome |-> r.outcome,
              value |-> r.value, lo |-> r.handle.lo, hi |-> r.handle.hi, resets |-> 0]
  /\ run' = IF InBounds(pointer, RequiredWidth(op, size), Len(payload))
            THEN [run EXCEPT !.sum = @ + RequiredWidth(op, size), !.n = @ + 1]
            ELSE NoRun(r.self.pointer)
  /\ CASE phase = "first" /\ Len(first) < MaxLog ->
            /\ first' = Append(first, Entry(op, size, r))
            /\ UNCHANGED <<phase, idx>>
       [] phase = "replay" /\ idx < Len(first)
            /\ first[idx + 1].op = op /\ first[idx + 1].size = size ->
            /\ idx' = idx + 1
            /\ UNCHANGED <<phase, first>>
       [] OTHER ->
            /\ phase' = "free"
            /\ first' = <<>>
            /\ idx' = 0

\* Reset that also changes the byte order back to the default
Reset_defaultOrder ==
  LET r == reset(Self)
  IN /\ instance
     /\ last.resets < 2
     /\ payload' = r.self.payload
     /\ pointer' = r.self.pointer
     /\ endian' = Little
     /\ UNCHANGED <<instance, origin, pair>>
     /\ ncalls' = 0
     /\ hist' = NoHist
     /\ last' = [op |-> "reset", size |-> 0, before |-> pointer, outcome |-> r.outcome,
                 value |-> r.value, lo |-> r.handle.lo, hi |-> r.handle.hi,
                 resets |-> last.resets + 1]
     /\ run' = NoRun(r.self.pointer)
     /\ phase' = IF phase = "first" THEN "replay" ELSE phase
     /\ idx' = 0
     /\ UNCHANGED first

Reset ==
  LET r == reset(Self)
  IN /\ instance
     /\ last.resets < 2
     /\ Effect(r)
     /\ ncalls' = 0
     /\ hist' = NoHist
     /\ last' = [op |-> "reset", size |-> 0, before |-> pointer, outcome |-> r.outcome,
                 value |-> r.value, lo |-> r.handle.lo, hi |-> r.handle.hi,
                 resets |-> last.resets + 1]
     /\ run' = NoRun(r.self.pointer)
     /\ phase' = IF phase = "first" THEN "replay" ELSE phase
     /\ idx' = 0
     /\ UNCHANGED first

Decode8bitUint == Call("decode_8bit_uint", 0, decode_8bit_uint(Self))

DecodeBits == Call("decode_bits", 0, decode_bits(Self))

Decode16bitUint == Call("decode_16bit_uint", 0, decode_16bit_uint(Self))

Decode32bitUint == Call("decode_32bit_uint", 0, decode_32bit_uint(Self))

Decode32bitUlong == Call("decode_32bit_ulong", 0, decode_32bit_ulong(Self))

Decode64bitUint == Call("decode_64bit_uint", 0, decode_64bit_uint(Self))

Decode8bitInt == Call("decode_8bit_int", 0, decode_8bit_int(Self))

Decode16bitInt == Call("decode_16bit_int", 0, decode_16bit_int(Self))

Decode32bitInt == Call("decode_32bit_int", 0, decode_32bit_int(Self))

Decode32bitLong == Call("decode_32bit_long", 0, decode_32bit_long(Self))

Decode64bitInt == Call("decode_64bit_int", 0, decode_64bit_int(Self))

Decode32bitFloat == Call("decode_32bit_float", 0, decode_32bit_float(Self))

Decode64bitFloat == Call("decode_64bit_float", 0, decode_64bit_float(Self))

\* decode_string called without its size, which then defaults to 1
DecodeString_defaultSize ==
  \E size \in StringSizes : Call("decode_string", size, decode_string(Self, 1))

DecodeString == \E size \in StringSizes : Call("decode_string", size, decode_string(Self, size))

Next ==
  \/ Reset
  \/ Decode8bitUint
  \/ DecodeBits
  \/ Decode16bitUint
  \/ Decode32bitUint
  \/ Decode32bitUlong
  \/ Decode64bitUint
  \/ Decode8bitInt
  \/ Decode16bitInt
  \/ Decode32bitInt
  \/ Decode32bitLong
  \/ Decode64bitInt
  \/ Decode32bitFloat
  \/ Decode64bitFloat
  \/ DecodeString

Spec == Init /\ [][Next]_vars

SpecReplay == InitReplay /\ [][Next]_vars

SpecCoils == InitCoils /\ [][Next]_vars

\* ------------------------------------------------------ two decoders
\* the method op of the decoder self
Method(op, size, self) ==
  CASE op = "reset"              -> reset(self)
    [] op = "decode_8bit_uint"   -> decode_8bit_uint(self)
    [] op = "decode_bits"        -> decode_bits(self)
    [] op = "decode_16bit_uint"  -> decode_16bit_uint(self)
    [] op = "decode_32bit_uint"  -> decode_32bit_uint(self)
    [] op = "decode_32bit_ulong" -> decode_32bit_ulong(self)
    [] op = "decode_64bit_uint"  -> decode_64bit_uint(self)
    [] op = "decode_8bit_int"    -> decode_8bit_int(self)
    [] op = "decode_16bit_int"   -> decode_16bit_int(self)
    [] op = "decode_32bit_int"   -> decode_32bit_int(self)
    [] op = "decode_32bit_long"  -> decode_32bit_long(self)
    [] op = "decode_64bit_int"   -> decode_64bit_int(self)
    [] op = "decode_32bit_float" -> decode_32bit_float(self)
    [] op = "decode_64bit_float" -> decode_64bit_float(self)
    [] op = "decode_string"      -> decode_string(self, size)

\* Two decoders, each built by __init__ over a buffer of its own.  objs are
\* the two objects; solo is what each object is when only its own calls are
\* made, in the same order; last is the last call, with what it produced and
\* what the same call produced in the run of its object alone.
InitPair ==
  /\ NotBuilt("none", List(<<>>), Little, "none")
  /\ last = NoCall
  /\ run = NoRun(0)
  /\ ncalls = 0
  /\ phase = "free"
  /\ first = <<>>
  /\ idx = 0
  /\ hist = NoHist
  /\ \E e1 \in Endian, e2 \in Endian, n \in {3, MaxLen}, k \in 1..2 :
       LET objs == << New([i \in 1..3 |-> SeedByte(1, i)], e1),
                      New([i \in 1..n |-> SeedByte(k, i)], e2) >>
       IN pair = [objs |-> objs, solo |-> objs, calls |-> 0,
                  last |-> [id |-> 0, op |-> "none", outcome |-> "ok", value |-> NoValue,
                            soloOutcome |-> "ok", soloValue |-> NoValue, before |-> objs]]

\* the pointer kept in a class attribute, which every instance shares
PairCall_classPointer(id, op, size) ==
  LET r == Method(op, size, pair.objs[id])
      alone == Method(op, size, pair.solo[id])
  IN /\ pair.calls < MaxPairCalls
     /\ pair' = [objs  |-> [i \in 1..2 |-> IF i = id THEN r.self
                              ELSE [pair.objs[i] EXCEPT !.pointer = r.self.pointer]],
                 solo  |-> [pair.solo EXCEPT ![id] = alone.self],
                 calls |-> pair.calls + 1,
                 last  |-> [id |-> id, op |-> op, outcome |-> r.outcome, value |-> r.value,
                            soloOutcome |-> alone.outcome, soloValue |-> alone.value,
                            before |-> pair.objs]]
     /\ UNCHANGED <<instance, payload, pointer, endian, origin, last, run, ncalls,
                    phase, first, idx, hist>>

\* objs[id].op(size): the method sees self, the object it is called on
PairCall(id, op, size) ==
  LET r == Method(op, size, pair.objs[id])
      alone == Method(op, size, pair.solo[id])
  IN /\ pair.calls < MaxPairCalls
     /\ pair' = [objs  |-> [pair.objs EXCEPT ![id] = r.self],
                 solo  |-> [pair.solo EXCEPT ![id] = alone.self],
                 calls |-> pair.calls + 1,
                 last  |-> [id |-> id, op |-> op, outcome |-> r.outcome, value |-> r.value,
                            soloOutcome |-> alone.outcome, soloValue |-> alone.value,
                            before |-> pair.objs]]
     /\ UNCHANGED <<instance, payload, pointer, endian, origin, last, run, ncalls,
                    phase, first, idx, hist>>

PairReset == \E id \in 1..2 : PairCall(id, "reset", 0)

PairDecode == \E id \in 1..2, op \in FixedOps : PairCall(id, op, 0)

PairDecodeString == \E id \in 1..2, size \in StringSizes : PairCall(id, "decode_string", size)

PairNext == PairReset \/ PairDecode \/ PairDecodeString

SpecPair == InitPair /\ [][PairNext]_vars

\* ================================================================ claims
LastWidth == RequiredWidth(last.op, last.size)

LastWasDecode == instance /\ last.op \in DecodeOps

\* C1: a decode call whose required width exceeds the remaining buffer
\* (cursor + width > length) fails and leaves the cursor where it was.
C1_UnderrunLeavesCursor ==
  (LastWasDecode /\ last.before + LastWidth > Len(payload))
    => (last.outcome = "struct.error" /\ pointer = last.before)

\* C2: in every reachable state the cursor satisfies 0 <= cursor <= length(buffer).
C2_CursorWithinBuffer ==
  instance => (0 <= pointer /\ pointer <= Len(payload))

\* C3: every decode operation, decode_string included, fails whenever
\* cursor + width > length(buffer); no call returns a value read from fewer
\* bytes than it asked for.
C3_UnderrunAlwaysFails ==
  LastWasDecode =>
    /\ (last.before + LastWidth > Len(payload)) => last.outcome # "ok"
    /\ (last.outcome = "ok") => (last.hi - last.lo = LastWidth)

\* C4: the cursor never decreases except by reset(), and each decode advances
\* it by exactly the number of bytes of the value it decoded.
C4_CursorNeverDecreases ==
  [][ (last'.op \in DecodeOps)
        => /\ pointer' >= pointer
           /\ (last'.outcome = "ok") => (pointer' - pointer = last'.hi - last'.lo) ]_vars

\* C5: consecutive in-bounds decode calls starting at cursor c read adjacent
\* ranges: the k-th call succeeds and reads exactly the bytes
\* [c + sum of the previous widths, + its own width), and the cursor's net
\* displacement is the sum of the widths.
C5_SequentialConsume ==
  (LastWasDecode /\ run.n > 0) =>
    /\ last.outcome = "ok"
    /\ pointer = run.start + run.sum
    /\ last.lo = run.start + run.sum - LastWidth
    /\ last.hi = run.start + run.sum

C5_Witness ==
  /\ run.n = 3 /\ run.start = 0 /\ run.sum = 7
  /\ last.op = "decode_32bit_uint" /\ last.lo = 3 /\ last.hi = 7

\* C6: after reset(), replaying the calls of the first run yields, call by
\* call, the outcome and the value the first run produced.
C6_ReplayAfterReset ==
  (phase = "replay" /\ idx > 0) =>
    /\ last.op = first[idx].op
    /\ last.outcome = first[idx].outcome
    /\ (last.outcome = "ok") => (last.value = first[idx].value)

C6_Witness ==
  /\ phase = "replay" /\ idx = 2 /\ Len(payload) = 3
  /\ first[1].op = "decode_16bit_int" /\ first[1].outcome = "ok"
  /\ first[2].op = "decode_32bit_uint" /\ first[2].outcome = "struct.error"

\* C7: reset() sets the cursor to 0 and changes nothing else, and a second
\* reset() leaves the state the first one left.
C7_ResetOnlyCursor ==
  [][ (last'.op = "reset")
        => /\ pointer' = 0
           /\ payload' = payload /\ endian' = endian /\ instance' = instance
           /\ (last.op = "reset") => (Self' = Self) ]_vars

C7_Witness ==
  /\ last.op = "reset" /\ last.resets = 2
  /\ pointer = 0 /\ payload = origin.payload /\ Len(payload) > 0

\* C8: no decode call, successful or failed, and no reset changes the
\* buffer, its length or the byte order set at construction.
C8_BufferAndOrderFixed ==
  instance =>
    /\ payload = origin.payload
    /\ Len(payload) = Len(origin.payload)
    /\ endian = origin.endian

C8_Witness ==
  /\ last.op = "decode_string" /\ last.size = 2 /\ last.before = 8
  /\ Len(payload) = 9 /\ pointer = 10

\* C9: at every cursor position of every buffer, under either byte order,
\* decode_32bit_ulong does what decode_32bit_uint does (value, cursor,
\* failure), and decode_32bit_long what decode_32bit_int does.
C9_AliasEquivalence ==
  instance =>
    /\ decode_32bit_ulong(Self) = decode_32bit_uint(Self)
    /\ decode_32bit_long(Self) = decode_32bit_int(Self)

C9_Witness ==
  /\ last.op = "decode_32bit_ulong" /\ last.outcome = "ok"
  /\ last.value = [neg |-> FALSE, mag |-> <<255, 255, 255, 255>>]
  /\ decode_32bit_long(Self).outcome = "ok"
  /\ decode_32bit_long(Self).value = [neg |-> TRUE, mag |-> <<1>>]

\* the integer x, 0 <= x <= 65535, as a decoded value
ValueOf16(x) == [neg |-> FALSE, mag |-> Strip(<<x \div 256, x % 256>>)]

\* C10: fromRegisters(registers, O) builds the buffer of the registers'
\* 2-byte forms in order, and the k-th of consecutive decode_16bit_uint calls
\* returns registers[k].
C10_RegisterRoundTrip ==
  (instance /\ origin.ctor = "fromRegisters") =>
    LET registers == origin.arg.items
    IN /\ Len(payload) = 2 * Len(registers)
       /\ \A k \in 1..Len(registers) :
            registers[k] = IF endian = Big
                           THEN payload[2 * k - 1] * 256 + payload[2 * k]
                           ELSE payload[2 * k] * 256 + payload[2 * k - 1]
       /\ (last.op = "decode_16bit_uint" /\ last.before % 2 = 0
             /\ InBounds(last.before, 2, Len(payload)))
            => /\ last.outcome = "ok"
               /\ last.value = ValueOf16(registers[last.before \div 2 + 1])

C10_Witness ==
  /\ origin.ctor = "fromRegisters" /\ origin.arg.items = <<258, 772>>
  /\ endian = Big /\ ncalls = 2 /\ run.n = 2
  /\ last.op = "decode_16bit_uint" /\ last.before = 2
  /\ last.value = [neg |-> FALSE, mag |-> <<3, 4>>]

\* C11: fromRegisters and fromCoils handed a non-sequence fail with the
\* invalid-parameter exception and no decoder results: nothing is built and
\* no operation ever acts.
C11_ScalarArgumentRejected ==
  (origin.ctor \in {"fromRegisters", "fromCoils"} /\ ~origin.arg.islist) =>
    /\ origin.outcome = "ParameterException"
    /\ ~instance
    /\ last.op = "none" /\ ncalls = 0

C11_Witness ==
  /\ origin.ctor = "fromCoils" /\ origin.arg = Scalar(42)
  /\ origin.outcome = "ParameterException" /\ ~instance

UnsignedOps ==
  {"decode_8bit_uint", "decode_16bit_uint", "decode_32bit_uint",
   "decode_32bit_ulong", "decode_64bit_uint"}

SignedOps ==
  {"decode_8bit_int", "decode_16bit_int", "decode_32bit_int",
   "decode_32bit_long", "decode_64bit_int"}

\* the digits mag, most significant first, padded with zeros to w digits
Pad(mag, w) == [i \in 1..(w - Len(mag)) |-> 0] \o mag

RECURSIVE AddDigits(_, _, _)
\* a + b + carry for digit strings of one length, least significant first;
\* the result has one digit more
AddDigits(a, b, carry) ==
  IF a = <<>> THEN <<carry>>
  ELSE LET t == Head(a) + Head(b) + carry
       IN <<t % 256>> \o AddDigits(Tail(a), Tail(b), t \div 256)

\* 2^(8w), least significant digit first
TwoToThe8(w) == [i \in 1..(w + 1) |-> IF i = w + 1 THEN 1 ELSE 0]

\* v is the number the w bytes be (most significant first) encode
Encodes(be, v, signed) ==
  LET w == Len(be)
  IN /\ Len(v.mag) <= w
     /\ (v.mag # <<>>) => (v.mag[1] # 0)
     /\ IF signed /\ be[1] >= 128
        THEN /\ v.neg
             /\ AddDigits(Reverse(be), Reverse(Pad(v.mag, w)), 0) = TwoToThe8(w)
        ELSE /\ ~v.neg
             /\ Pad(v.mag, w) = be

\* C12: an in-bounds integer decode of 8, 16, 32 or 64 bits returns the
\* number whose encoding of that width, signedness and byte order is the
\* bytes at the cursor: unsigned, or two's complement (value + 2^bits for a
\* negative value), most or least significant byte first per the byte order.
C12_IntegerRoundTrip ==
  (instance /\ last.op \in (UnsignedOps \cup SignedOps)
     /\ InBounds(last.before, LastWidth, Len(payload))) =>
    LET bytes == SubSeq(payload, last.before + 1, last.before + LastWidth)
        be == IF endian = Big THEN bytes ELSE Reverse(bytes)
    IN /\ last.outcome = "ok"
       /\ Encodes(be, last.value, last.op \in SignedOps)

\* the most negative 64-bit value, read most significant byte first
C12_Witness ==
  /\ last.op = "decode_64bit_int" /\ last.outcome = "ok" /\ endian = Big
  /\ last.value = [neg |-> TRUE, mag |-> <<128, 0, 0, 0, 0, 0, 0, 0>>]

\* C13: decode_string(size) with cursor + size <= length returns exactly the
\* size bytes at [cursor, cursor + size) and advances the cursor by size.
C13_StringInBounds ==
  (instance /\ last.op = "decode_string"
     /\ InBounds(last.before, last.size, Len(payload))) =>
    /\ last.outcome = "ok"
    /\ Len(last.value) = last.size
    /\ \A i \in 1..last.size : last.value[i] = payload[last.before + i]
    /\ pointer = last.before + last.size

C13_Witness ==
  /\ last.op = "decode_string" /\ last.size = 5 /\ last.before = 0
  /\ Len(payload) > 5 /\ pointer = 5 /\ last.value = <<1, 2, 3, 4, 5>>

\* C14: after fromCoils(coils), an in-bounds decode_bits() at cursor c returns
\* 8 booleans, the coils 8c+1 .. 8c+8 in input order (FALSE past the end of
\* the list), and advances the cursor by 1; so k calls return 8k coils in order.
C14_CoilRoundTrip ==
  (instance /\ origin.ctor = "fromCoils") =>
    LET coils == origin.arg.items
    IN /\ Len(payload) = (Len(coils) + 7) \div 8
       /\ (last.op = "decode_bits" /\ InBounds(last.before, 1, Len(payload))) =>
            /\ last.outcome = "ok"
            /\ Len(last.value) = 8
            /\ \A j \in 1..8 :
                 last.value[j] = IF 8 * last.before + j <= Len(coils)
                                 THEN coils[8 * last.before + j]
                                 ELSE FALSE
            /\ pointer = last.before + 1

C14_Witness ==
  /\ origin.ctor = "fromCoils"
  /\ origin.arg.items = CoilsOf({8}) \o CoilsOf({1, 3})
  /\ last.op = "decode_bits" /\ last.before = 1 /\ run.n = 2 /\ pointer = 2
  /\ last.value = <<TRUE, FALSE, TRUE, FALSE, FALSE, FALSE, FALSE, FALSE>>

\* C15: under any interleaving of calls on two decoders, each call returns
\* what it returns in the run of its decoder alone, each decoder is what it is
\* in that run, and a call on one decoder leaves the other's cursor, buffer
\* and byte order as they were.
C15_IndependentInstances ==
  (pair.objs # <<>>) =>
    /\ pair.objs = pair.solo
    /\ pair.last.outcome = pair.last.soloOutcome
    /\ (pair.last.outcome = "ok") => (pair.last.value = pair.last.soloValue)
    /\ \A i \in 1..2 : (i # pair.last.id) => (pair.objs[i] = pair.last.before[i])

\* a call on the second decoder between two calls on the first
C15_Witness ==
  /\ pair.objs # <<>> /\ pair.calls = 3
  /\ pair.last.id = 1 /\ pair.last.op = "decode_16bit_uint" /\ pair.last.outcome = "ok"
  /\ pair.objs[1].pointer = 3 /\ pair.objs[2].pointer = 8
  /\ pair.objs[1].endian # pair.objs[2].endian

\* C16: a decode call that fits after the bytes consumed so far (the widths
\* of the successful decodes since the last reset, plus its own, within the
\* length of the buffer) succeeds, whatever calls failed before it.
C16_FittingDecodeSucceeds ==
  (LastWasDecode /\ LastWidth >= 0 /\ hist.consumed >= 0
     /\ hist.consumed + LastWidth <= Len(payload)) =>
    /\ last.outcome = "ok"
    /\ last.hi - last.lo = LastWidth

Min(a, b) == IF a < b THEN a ELSE b

\* C17: a fixed-width decode leaves the cursor advanced by its width whether
\* it returns or raises, and what it interprets is the slice
\* [cursor_after - width, cursor_after) of the buffer, cut at the buffer's
\* end; the struct-based decodes return exactly when that slice is whole.
C17_AdvanceBeforeRead ==
  (instance /\ last.op \in FixedOps) =>
    /\ pointer = last.before + LastWidth
    /\ last.lo = Slice(payload, pointer - LastWidth, pointer).lo
    /\ last.hi = Slice(payload, pointer - LastWidth, pointer).hi
    /\ (last.before >= 0) =>
         /\ last.lo = Min(pointer - LastWidth, Len(payload))
         /\ last.hi = Min(pointer, Len(payload))
    /\ (last.op # "decode_bits") =>
         ((last.outcome = "ok") <=> (last.hi - last.lo = LastWidth))

C17_Witness ==
  /\ last.op = "decode_32bit_float" /\ last.outcome = "struct.error"
  /\ last.before = 1 /\ pointer = 5 /\ Len(payload) = 3
  /\ last.lo = 1 /\ last.hi = 3

\* C18: once a fixed-width decode has failed, and while no reset and no
\* negative size intervenes, every fixed-width decode fails and every
\* decode_string returns the empty sequence; the first decode after a
\* reset succeeds when its width is within the length of the buffer.
C18_UnderrunSticky ==
  (LastWasDecode /\ ~HistNow.negative) =>
    /\ (hist.failed /\ last.op \in FixedOps) => (last.outcome = "struct.error")
    /\ (hist.failed /\ last.op = "decode_string") => (last.value = <<>>)
    /\ (ncalls = 1 /\ last.before = 0 /\ LastWidth <= Len(payload))
         => (last.outcome = "ok" /\ last.hi - last.lo = LastWidth)

\* C19: a decoder just built has its cursor at 0 and the byte order handed
\* to the construction call; fromRegisters lays each register out in that
\* order, two bytes per register.
C19_FreshDecoder ==
  instance =>
    /\ (last.op = "none") => (pointer = 0)
    /\ endian = origin.endian
    /\ (origin.ctor = "fromRegisters") =>
         LET registers == origin.arg.items
         IN /\ Len(payload) = 2 * Len(registers)
            /\ \A k \in 1..Len(registers) :
                 LET high == registers[k] \div 256
                     low == registers[k] % 256
                 IN IF origin.endian = Big
                    THEN payload[2 * k - 1] = high /\ payload[2 * k] = low
                    ELSE payload[2 * k - 1] = low /\ payload[2 * k] = high

C19_Witness ==
  /\ instance /\ last.op = "none" /\ pointer = 0
  /\ origin.ctor = "fromRegisters" /\ origin.endian = Big /\ endian = Big
  /\ origin.arg.items = <<258, 65535>> /\ payload = <<1, 2, 255, 255>>

====
